---- MODULE Spec2Model ----
(***************************************************************************)
(* Model of app.py, the LekaLink cloud cost calculator (a Streamlit       *)
(* script).  One run of the script is: initialise the three rates to the  *)
(* defaults, resolve them from the price sheet inside one try block, read  *)
(* the widgets and, when the button was clicked, validate, calculate,      *)
(* build the quote record, render the PDF, offer it and mail it.           *)
(*                                                                         *)
(* Numbers.  A Python float is a record [k, v]: k is "num", "nan", "inf"   *)
(* or "ninf" and v is the value in hundredths when k = "num".     *)
(* Every product taken by the script on the chosen inputs is a whole       *)
(* number of hundredths, so the arithmetic of the model is exact.         *)
(* Strings are sequences of one-character strings, so that substring,      *)
(* upper-casing and membership tests are computed, not assumed.            *)
(***************************************************************************)
EXTENDS Integers, Sequences, FiniteSets, TLC

\* ------------------------------------------------------------------ bounds
MaxRows == 2        \* rows of the price sheet, rate-resolution specification
MaxQuoteRows == 1   \* rows of the price sheet, whole-script specification
MaxFilterRows == 3  \* rows of the price sheet, row-filter specification

\* ------------------------------------------------------------------ floats
Num(x) == [k |-> "num", v |-> x]
NaN == [k |-> "nan", v |-> 0]
PInf == [k |-> "inf", v |-> 0]
NInf == [k |-> "ninf", v |-> 0]
\* a name that is not bound yet (the script has not assigned it)
Unbound == [k |-> "unbound", v |-> 0]

\* math.isfinite(v)
isfinite(x) == x.k = "num"

\* v >= 0 on floats (False for NaN)
FGe0(x) == \/ x.k = "inf"
           \/ x.k = "num" /\ x.v >= 0

\* a < b on floats (False when either is NaN)
FLt(a, b) ==
    CASE a.k = "nan" \/ b.k = "nan" -> FALSE
      [] a.k = "ninf" -> b.k # "ninf"
      [] a.k = "inf" -> FALSE
      [] b.k = "inf" -> TRUE
      [] b.k = "ninf" -> FALSE
      [] OTHER -> a.v < b.v

\* a > b on floats
FGt(a, b) == FLt(b, a)

Sgn(n) == IF n > 0 THEN 1 ELSE IF n < 0 THEN -1 ELSE 0

\* sign of a float, 0 for zero and for NaN
FSign(x) ==
    CASE x.k = "num" -> Sgn(x.v)
      [] x.k = "inf" -> 1
      [] x.k = "ninf" -> -1
      [] OTHER -> 0

FNeg(x) ==
    CASE x.k = "num" -> Num(0 - x.v)
      [] x.k = "inf" -> NInf
      [] x.k = "ninf" -> PInf
      [] OTHER -> x

\* a * b on floats
FMul(a, b) ==
    CASE a.k = "nan" \/ b.k = "nan" -> NaN
      [] a.k = "num" /\ b.k = "num" ->
            Num((a.v \div 100) * b.v + ((a.v % 100) * b.v) \div 100)
      [] FSign(a) * FSign(b) = 0 -> NaN
      [] FSign(a) * FSign(b) > 0 -> PInf
      [] OTHER -> NInf

\* a + b on floats
FAdd(a, b) ==
    CASE a.k = "nan" \/ b.k = "nan" -> NaN
      [] a.k = "num" /\ b.k = "num" -> Num(a.v + b.v)
      [] a.k = "num" -> b
      [] b.k = "num" -> a
      [] a.k = b.k -> a
      [] OTHER -> NaN

\* a - b on floats
FSub(a, b) == FAdd(a, FNeg(b))

\* ----------------------------------------------------------------- strings
Lowers == <<"a", "b", "c", "d", "e", "f", "g", "h", "i", "j", "k", "l", "m",
            "n", "o", "p", "q", "r", "s", "t", "u", "v", "w", "x", "y", "z">>
Uppers == <<"A", "B", "C", "D", "E", "F", "G", "H", "I", "J", "K", "L", "M",
            "N", "O", "P", "Q", "R", "S", "T", "U", "V", "W", "X", "Y", "Z">>

\* str.upper() on the letters a-z, as a table
UpperTable ==
    [c \in {Lowers[i] : i \in 1..Len(Lowers)} |->
        Uppers[CHOOSE i \in 1..Len(Lowers) : Lowers[i] = c]]

\* one character of str.upper()
UpperChar(c) == IF c \in DOMAIN UpperTable THEN UpperTable[c] ELSE c

\* str.upper()
upper(s) == [i \in 1..Len(s) |-> UpperChar(s[i])]

\* s[p+1 .. p+Len(sub)] = sub
MatchAt(sub, s, p) == \A i \in 1..Len(sub) : s[p + i] = sub[i]

\* sub in s  (substring test)
In(sub, s) == \E p \in 0..(Len(s) - Len(sub)) : MatchAt(sub, s, p)

\* ----------------------------------------------------------------- pricing
DEFAULT_VM_RATE == Num(86435)
DEFAULT_STORAGE_RATE_PER_TB == Num(87040)
DEFAULT_BANDWIDTH_RATE_PER_MBPS == Num(750)

vm_keywords ==
    << <<"V", "i", "r", "t", "u", "a", "l">>,
       <<"D", "a", "t", "a", " ", "C", "e", "n", "t", "r", "e">>,
       <<"V", "D", "C">>,
       <<"V", "M">>,
       <<"R", "e", "s", "o", "u", "r", "c", "e", " ", "P", "o", "o", "l">>,
       <<"A", "l", "l", "o", "c", "a", "t", "i", "o", "n">> >>

storage_keywords ==
    << <<"S", "t", "o", "r", "a", "g", "e">>,
       <<"N", "V", "M", "E">>,
       <<"S", "S", "D">>,
       <<"v", "S", "t", "o", "r", "a", "g", "e">> >>

bandwidth_keywords ==
    << <<"B", "a", "n", "d", "w", "i", "d", "t", "h">>,
       <<"I", "n", "t", "e", "r", "n", "e", "t">>,
       <<"C", "o", "n", "n", "e", "c", "t", "i", "v", "i", "t", "y">>,
       <<"M", "b", "p", "s">>,
       <<"N", "e", "t", "w", "o", "r", "k">> >>

\* '|'.join(keywords) compiled with case=False: the alternatives, case-folded
join(keywords) == [j \in 1..Len(keywords) |-> upper(keywords[j])]

vm_pattern == join(vm_keywords)
storage_pattern == join(storage_keywords)
bandwidth_pattern == join(bandwidth_keywords)

GB == <<"G", "B">>
FIFTY == Num(5000)
KIB == Num(102400)

\* a text cell of the sheet: na is TRUE for an empty (NaN) cell
Text(s) == [na |-> FALSE, s |-> s]
NA == [na |-> TRUE, s |-> <<>>]

\* a raw 'Unit Monthly' cell: a float, or text that is not a number
NotANumber == [k |-> "text", v |-> 0]

\* pd.to_numeric(cell, errors='coerce')
to_numeric(cell) == IF cell.k \in {"num", "inf", "ninf"} THEN cell ELSE NaN

\* Series.notna()
notna(x) == x.k # "nan"

\* isinstance(v, (int, float)) on a cell of the numeric column
IsIntOrFloat(x) == x.k \in {"num", "nan", "inf", "ninf"}

\* faulty variant of valid_at: a row counts only if coerce_rate would accept it
valid_at_accepted(x) == notna(x) /\ IsIntOrFloat(x) /\ x.k = "num" /\ x.v >= 0

\* line 66, one cell: notna() & isinstance(v, (int, float))
valid_at(x) == notna(x) /\ IsIntOrFloat(x)

\* Series.str.contains(pattern, na=False, case=False), one cell
str_contains(cell, pattern) ==
    IF cell.na THEN FALSE
    ELSE LET text == upper(cell.s) IN
         \E j \in 1..Len(pattern) : In(pattern[j], text)

\* .str raises AttributeError on a column that holds no string at all
StrAccessorFails(df) ==
    /\ Len(df) > 0
    /\ \A i \in 1..Len(df) : df[i].Description.na

\* indices of a sequence of booleans that are TRUE, in order: df[mask]
RECURSIVE Filter(_, _)
Filter(mask, i) ==
    IF i > Len(mask) THEN <<>>
    ELSE IF mask[i] THEN <<i>> \o Filter(mask, i + 1)
    ELSE Filter(mask, i + 1)

\* faulty variant of Select: price_df[valid], the keyword mask left out
Select_unmasked(df, mask, ok) == Filter([i \in 1..Len(df) |-> ok[i]], 1)

\* faulty variant of iloc0: the last row of the frame, frame.iloc[-1]
iloc_last(frame) == frame[Len(frame)]

\* frame.iloc[0]
iloc0(frame) == frame[1]

\* faulty variant of coerce_rate: the math.isfinite test left out
coerce_rate_unchecked(val, default) ==
    IF ~IsIntOrFloat(val) THEN default
    ELSE IF FGe0(val) THEN val ELSE default

coerce_rate(val, default) ==
    IF ~IsIntOrFloat(val) THEN default
    ELSE IF isfinite(val) /\ FGe0(val) THEN val ELSE default

\* ------------------------------------------------------------------- state
VARIABLES
    env,                      \* the deployment: files, sheet, stdout
    pc,                       \* position of the running script
    load_error,               \* which except clause of the loader ran
    price_df,                 \* the parsed sheet
    valid,                    \* the boolean Series of line 66
    vm_row, storage_row, bandwidth_row,   \* the filtered frames (row indices)
    storage_price, desc,      \* locals of the storage branch
    VM_RATE, STORAGE_RATE_PER_TB, BANDWIDTH_RATE_PER_MBPS,
    form,                     \* widget values of this run and the button
    errors,                   \* validate_inputs' error list
    lekalink_cost, monthly_savings, percentage_savings,
    divisors,                 \* divisors of the divisions evaluated this run
    quote_data, pdf_output,
    ui,                       \* what this run has put on the page, in order
    email_result,             \* return value of send_email_to_sales
    outbox,                   \* messages this run handed to the SMTP server
    priced                    \* rate triples submissions were priced with

rateVars == <<VM_RATE, STORAGE_RATE_PER_TB, BANDWIDTH_RATE_PER_MBPS>>
loadVars == <<load_error, price_df, valid, vm_row, storage_row, bandwidth_row,
              storage_price, desc>>
calcVars == <<lekalink_cost, monthly_savings, percentage_savings, divisors>>
quoteVars == <<quote_data, pdf_output, email_result>>
formVars == <<form, errors, calcVars, quoteVars, ui, outbox, priced>>
vars == <<env, pc, loadVars, rateVars, formVars>>

\* ------------------------------------------------------------- environment
\* a deployment's stdout rejects the text of one print call of the loader
\* (lines 82/85 or 100/103, the first ones that follow a stored rate) or none
StdoutPoints == {"print_vm", "print_storage"}

Row(d, u) == [desc |-> d, unit |-> u]

RateDescs ==
    { NA,
      Text(<<"v", "d", "c">>),
      Text(<<"v", "S", "t", "o", "r", "a", "g", "e", " ", "(", "p", "e", "r",
             " ", "G", "B", ")">>),
      Text(<<"s", "s", "d", " ", "g", "b", " ", "m", "b", "p", "s">>),
      Text(<<"M", "b", "p", "s">>),
      Text(<<"N", "V", "M", "e">>) }

RateUnits == { Num(250), Num(5000), Num(90000), Num(-100), PInf, NaN,
               NotANumber }

RateRows == { Row(d, u) : d \in RateDescs, u \in RateUnits }

\* every description cell a sheet of the model can hold
Descriptions == RateDescs

\* lines 78, 89, 107: the three masks, as the value each description cell gets
vm_mask == [cell \in Descriptions |-> str_contains(cell, vm_pattern)]
storage_mask == [cell \in Descriptions |-> str_contains(cell, storage_pattern)]
bandwidth_mask ==
    [cell \in Descriptions |-> str_contains(cell, bandwidth_pattern)]

\* sequences over S of length at most n
SeqsUpTo(S, n) == UNION { [1..m -> S] : m \in 0..n }

Deployment(dir, file, cols, rows, fail) ==
    [assets_dir |-> dir, file |-> file, columns |-> cols, rows |-> rows,
     stdout_fail |-> fail]

BrokenEnvs ==
    { Deployment(FALSE, FALSE, FALSE, <<>>, "none"),
      Deployment(TRUE, FALSE, FALSE, <<>>, "none"),
      Deployment(TRUE, TRUE, FALSE, <<>>, "none") }

RateEnvs ==
    BrokenEnvs \cup
    { Deployment(TRUE, TRUE, TRUE, rows, fail) :
        rows \in SeqsUpTo(RateRows, MaxRows),
        fail \in StdoutPoints \cup {"none"} }

NoForm == [clicked |-> FALSE, vms |-> 0, storage |-> Num(0),
           bandwidth |-> Num(0), current_cost |-> Num(0),
           company_name |-> <<>>, contact_name |-> <<>>, job_title |-> <<>>,
           email |-> <<>>, phone |-> <<>>]

NoQuote == [set |-> FALSE]
NoPdf == [set |-> FALSE]

\* the names a fresh run of the script starts with (lines 22-29)
ScriptStart ==
    /\ pc = "load"
    /\ load_error = "none"
    /\ price_df = <<>>
    /\ valid = <<>>
    /\ vm_row = <<>> /\ storage_row = <<>> /\ bandwidth_row = <<>>
    /\ storage_price = Unbound
    /\ desc = <<>>
    /\ VM_RATE = DEFAULT_VM_RATE
    /\ STORAGE_RATE_PER_TB = DEFAULT_STORAGE_RATE_PER_TB
    /\ BANDWIDTH_RATE_PER_MBPS = DEFAULT_BANDWIDTH_RATE_PER_MBPS
    /\ form = NoForm
    /\ errors = <<>>
    /\ lekalink_cost = Unbound
    /\ monthly_savings = Unbound
    /\ percentage_savings = [k |-> "unbound", n |-> 0, d |-> 1]
    /\ divisors = <<>>
    /\ quote_data = NoQuote
    /\ pdf_output = NoPdf
    /\ ui = <<>>
    /\ email_result = "unset"
    /\ outbox = <<>>

InitRates ==
    /\ env \in RateEnvs
    /\ priced = {}
    /\ ScriptStart

\* ------------------------------------------------------------ rate loading
\* where the script goes after a print call: on, or to 'except Exception'
stdout_then(point, next) ==
    IF env.stdout_fail = point THEN "except_exc" ELSE next

\* faulty variant of Select: a row another category has selected is left out
Select_unclaimed(df, mask, ok) ==
    Filter([i \in 1..Len(df) |->
              /\ mask[df[i].Description] /\ ok[i]
              /\ \A frame \in {vm_row, storage_row, bandwidth_row} :
                    frame # <<>> => frame[1] # i], 1)

\* price_df[mask & valid] as the sequence of the original row indices kept
Select(df, mask, ok) ==
    Filter([i \in 1..Len(df) |-> mask[df[i].Description] /\ ok[i]], 1)

\* lines 34-66: existence checks, read_csv, to_numeric, the valid mask
Load ==
    /\ pc = "load"
    /\ IF ~(env.assets_dir /\ env.file)
       THEN /\ pc' = "except_fnf"
            /\ UNCHANGED <<price_df, valid>>
       ELSE IF ~env.columns
       THEN /\ pc' = "except_key"
            /\ UNCHANGED <<price_df, valid>>
       ELSE LET df == [i \in 1..Len(env.rows) |->
                         [Description |-> env.rows[i].desc,
                          UnitMonthly |-> to_numeric(env.rows[i].unit)]] IN
            /\ price_df' = df
            /\ valid' = [i \in 1..Len(df) |-> valid_at(df[i].UnitMonthly)]
            /\ pc' = "select_vm"
    /\ UNCHANGED <<env, load_error, vm_row, storage_row, bandwidth_row,
                   storage_price, desc, rateVars, formVars>>

\* lines 76-85
SelectVm ==
    /\ pc = "select_vm"
    /\ IF StrAccessorFails(price_df)
       THEN /\ pc' = "except_exc"
            /\ UNCHANGED <<vm_row, VM_RATE>>
       ELSE LET rows == Select(price_df, vm_mask, valid) IN
            /\ vm_row' = rows
            /\ VM_RATE' =
                 IF rows # <<>>
                 THEN coerce_rate(price_df[iloc0(rows)].UnitMonthly,
                                  DEFAULT_VM_RATE)
                 ELSE DEFAULT_VM_RATE
            /\ pc' = stdout_then("print_vm", "select_storage")
    /\ UNCHANGED <<env, load_error, price_df, valid, storage_row,
                   bandwidth_row, storage_price, desc, STORAGE_RATE_PER_TB,
                   BANDWIDTH_RATE_PER_MBPS, formVars>>

\* lines 87-93 and 101-103
SelectStorage ==
    /\ pc = "select_storage"
    /\ LET rows == Select(price_df, storage_mask, valid) IN
       /\ storage_row' = rows
       /\ IF rows # <<>>
          THEN /\ storage_price' =
                    coerce_rate(price_df[iloc0(rows)].UnitMonthly,
                                DEFAULT_STORAGE_RATE_PER_TB)
               /\ desc' = price_df[iloc0(rows)].Description.s
               /\ pc' = "storage_convert"
               /\ UNCHANGED STORAGE_RATE_PER_TB
          ELSE /\ STORAGE_RATE_PER_TB' = DEFAULT_STORAGE_RATE_PER_TB
               /\ pc' = stdout_then("print_storage", "select_bandwidth")
               /\ UNCHANGED <<storage_price, desc>>
    /\ UNCHANGED <<env, load_error, price_df, valid, vm_row, bandwidth_row,
                   VM_RATE, BANDWIDTH_RATE_PER_MBPS, formVars>>

\* faulty variant of gb_to_tb: the threshold test written <= 50
gb_to_tb_inclusive(description, price) ==
    IF In(GB, upper(description)) /\ (FLt(price, FIFTY) \/ price = FIFTY)
    THEN FMul(price, KIB)
    ELSE price

\* the value lines 95-98 assign
gb_to_tb(description, price) ==
    IF In(GB, upper(description)) /\ FLt(price, FIFTY)
    THEN FMul(price, KIB)
    ELSE price

\* lines 94-98
StorageConvert ==
    /\ pc = "storage_convert"
    /\ STORAGE_RATE_PER_TB' = gb_to_tb(desc, storage_price)
    /\ pc' = "storage_coerce"
    /\ UNCHANGED <<env, loadVars, VM_RATE, BANDWIDTH_RATE_PER_MBPS, formVars>>

\* lines 99-100
StorageCoerce ==
    /\ pc = "storage_coerce"
    /\ STORAGE_RATE_PER_TB' =
         coerce_rate(STORAGE_RATE_PER_TB, DEFAULT_STORAGE_RATE_PER_TB)
    /\ pc' = stdout_then("print_storage", "select_bandwidth")
    /\ UNCHANGED <<env, loadVars, VM_RATE, BANDWIDTH_RATE_PER_MBPS, formVars>>

\* lines 105-114
SelectBandwidth ==
    /\ pc = "select_bandwidth"
    /\ LET rows == Select(price_df, bandwidth_mask, valid) IN
       /\ bandwidth_row' = rows
       /\ BANDWIDTH_RATE_PER_MBPS' =
            IF rows # <<>>
            THEN coerce_rate(price_df[iloc0(rows)].UnitMonthly,
                             DEFAULT_BANDWIDTH_RATE_PER_MBPS)
            ELSE DEFAULT_BANDWIDTH_RATE_PER_MBPS
    /\ pc' = stdout_then("print_bandwidth", "final_safety")
    /\ UNCHANGED <<env, load_error, price_df, valid, vm_row, storage_row,
                   storage_price, desc, VM_RATE, STORAGE_RATE_PER_TB, formVars>>

\* lines 116-121
FinalSafety ==
    /\ pc = "final_safety"
    /\ VM_RATE' = coerce_rate(VM_RATE, DEFAULT_VM_RATE)
    /\ STORAGE_RATE_PER_TB' =
         coerce_rate(STORAGE_RATE_PER_TB, DEFAULT_STORAGE_RATE_PER_TB)
    /\ BANDWIDTH_RATE_PER_MBPS' =
         coerce_rate(BANDWIDTH_RATE_PER_MBPS, DEFAULT_BANDWIDTH_RATE_PER_MBPS)
    /\ pc' = "layout"
    /\ UNCHANGED <<env, loadVars, formVars>>

\* lines 123-131: the three except clauses; the rates keep what they hold
Except ==
    /\ pc \in {"except_fnf", "except_key", "except_exc"}
    /\ load_error' = pc
    /\ pc' = "layout"
    /\ UNCHANGED <<env, price_df, valid, vm_row, storage_row, bandwidth_row,
                   storage_price, desc, rateVars, formVars>>

NextRates ==
    \/ Load
    \/ SelectVm
    \/ SelectStorage
    \/ StorageConvert
    \/ StorageCoerce
    \/ SelectBandwidth
    \/ FinalSafety
    \/ Except

SpecRates == InitRates /\ [][NextRates]_vars

\* the loader on longer sheets of fewer kinds of row: a description of one
\* category, one of two categories, and every kind of unit cell (a rate, a
\* negative number, an infinity, an empty cell, text)
FilterDescs ==
    { Text(<<"v", "d", "c">>),
      Text(<<"N", "V", "M", "e">>),
      Text(<<"M", "b", "p", "s">>) }

FilterUnits == { Num(250), Num(-100), PInf, NaN, NotANumber }

FilterRows == { Row(d, u) : d \in FilterDescs, u \in FilterUnits }

FilterEnvs ==
    BrokenEnvs \cup
    { Deployment(TRUE, TRUE, TRUE, rows, fail) :
        rows \in SeqsUpTo(FilterRows, MaxFilterRows),
        fail \in StdoutPoints \cup {"none"} }

InitFilters ==
    /\ env \in FilterEnvs
    /\ priced = {}
    /\ ScriptStart

SpecFilters == InitFilters /\ [][NextRates]_vars

\* ------------------------------------------------------------- the form
\* int -> float, as Python does in int * float
FromInt(n) == Num(n * 100)

RECURSIVE Gcd(_, _)
Gcd(a, b) == IF b = 0 THEN a ELSE Gcd(b, a % b)

Abs(n) == IF n < 0 THEN 0 - n ELSE n

\* a quotient of floats is kept exact, as the fraction n/d in lowest terms
Ratio(n, d) ==
    LET g == Gcd(Abs(n), Abs(d)) IN
    [k |-> "num", n |-> (n \div g) * Sgn(d), d |-> Abs(d) \div g]

NoRatio(kind) == [k |-> kind, n |-> 0, d |-> 1]

\* a / b: ZeroDivisionError when b is 0.0
FDiv(a, b) ==
    IF a.k # "num" \/ b.k # "num" THEN NoRatio("nan")
    ELSE IF b.v = 0 THEN NoRatio("ZeroDivisionError")
    ELSE Ratio(a.v, b.v)

\* r * 100
Times100(r) == IF r.k # "num" THEN r ELSE Ratio(r.n * 100, r.d)

\* faulty variant of percentage: the percentage of the increase, the sign reversed
percentage_of_increase(savings, cost) ==
    IF FGt(cost, Num(0)) THEN Times100(FDiv(FNeg(savings), cost))
    ELSE NoRatio("num")

\* faulty variant of percentage: the guard on current_cost left out
percentage_unguarded(savings, cost) == Times100(FDiv(savings, cost))

\* line 502, the value
percentage(savings, cost) ==
    IF FGt(cost, Num(0)) THEN Times100(FDiv(savings, cost))
    ELSE NoRatio("num")

\* line 502, the divisors of the divisions it evaluates
percentage_divisors(savings, cost) ==
    IF FGt(cost, Num(0)) THEN <<cost>> ELSE <<>>

\* faulty variant of estimate: the bandwidth term left out
estimate_no_bandwidth(vms, storage, bandwidth, vm_rate, storage_rate, bandwidth_rate) ==
    FAdd(FMul(FromInt(vms), vm_rate), FMul(storage, storage_rate))

\* faulty variant of quote_rates: the quote records the default rates
quote_rates_default(vm_rate, storage_rate, bandwidth_rate) ==
    <<DEFAULT_VM_RATE, DEFAULT_STORAGE_RATE_PER_TB,
      DEFAULT_BANDWIDTH_RATE_PER_MBPS>>

\* lines 530-532: the rates the quote record carries
quote_rates(vm_rate, storage_rate, bandwidth_rate) ==
    <<vm_rate, storage_rate, bandwidth_rate>>

\* line 500
estimate(vms, storage, bandwidth, vm_rate, storage_rate, bandwidth_rate) ==
    FAdd(FAdd(FMul(FromInt(vms), vm_rate), FMul(storage, storage_rate)),
         FMul(bandwidth, bandwidth_rate))

\* x >= 0 on floats
FGeZero(x) == FGe0(x)

\* faulty variant of validate_errors: the '@' test left out
validate_errors_no_at(company_name, contact_name, job_title, email, phone) ==
    (IF company_name = <<>> THEN <<"Company Name is required.">> ELSE <<>>)
    \o (IF contact_name = <<>> THEN <<"Contact Name is required.">> ELSE <<>>)
    \o (IF job_title = <<>> THEN <<"Job Title is required.">> ELSE <<>>)
    \o (IF email = <<>> THEN <<"Email is required.">> ELSE <<>>)
    \o (IF phone = <<>> THEN <<"Phone Number is required.">> ELSE <<>>)

\* lines 450-465: the error list of validate_inputs
validate_errors(company_name, contact_name, job_title, email, phone) ==
    (IF company_name = <<>> THEN <<"Company Name is required.">> ELSE <<>>)
    \o (IF contact_name = <<>> THEN <<"Contact Name is required.">> ELSE <<>>)
    \o (IF job_title = <<>> THEN <<"Job Title is required.">> ELSE <<>>)
    \o (IF email = <<>> THEN <<"Email is required.">>
        ELSE IF ~In(<<"@">>, email)
        THEN <<"Please enter a valid email address.">>
        ELSE <<>>)
    \o (IF phone = <<>> THEN <<"Phone Number is required.">> ELSE <<>>)

\* the values the widgets of lines 482-493 and the button of line 496 return
VmsChoices == {0, 10}
StorageChoices == {Num(0), Num(200)}
BandwidthChoices == {Num(0), Num(10000)}
CostChoices == {Num(0), Num(500000), Num(1113430), Num(2000000)}
NameChoices == {<<>>, <<"x">>}
EmailChoices == {<<>>, <<"a">>, <<"a", "@", "b">>}

Forms ==
    [clicked : BOOLEAN, vms : VmsChoices, storage : StorageChoices,
     bandwidth : BandwidthChoices, current_cost : CostChoices,
     company_name : NameChoices, contact_name : NameChoices,
     job_title : NameChoices, email : EmailChoices, phone : NameChoices]

\* lines 472-493: the page is laid out and the widgets return their values
ReadWidgets ==
    /\ pc = "layout"
    /\ form' \in Forms
    /\ pc' = "button"
    /\ UNCHANGED <<env, loadVars, rateVars, errors, calcVars, quoteVars, ui,
                   outbox, priced>>

\* st.error(text)
Error(text) == [kind |-> "error", text |-> text]

\* lines 496-498 with validate_inputs (450-470)
Validate ==
    /\ pc = "button"
    /\ IF ~form.clicked
       THEN /\ pc' = "end"
            /\ UNCHANGED <<errors, ui>>
       ELSE LET errs == validate_errors(form.company_name, form.contact_name,
                                        form.job_title, form.email,
                                        form.phone) IN
            /\ errors' = errs
            /\ ui' = ui \o [i \in 1..Len(errs) |-> Error(errs[i])]
            /\ pc' = IF errs # <<>> THEN "end" ELSE "calc"
    /\ UNCHANGED <<env, loadVars, rateVars, form, calcVars, quoteVars, outbox,
                   priced>>

\* lines 499-514: the three results and their display
Calculate ==
    /\ pc = "calc"
    /\ LET cost == estimate(form.vms, form.storage, form.bandwidth, VM_RATE,
                            STORAGE_RATE_PER_TB, BANDWIDTH_RATE_PER_MBPS)
           savings == FSub(form.current_cost, cost)
           percent == percentage(savings, form.current_cost)
       IN
       /\ lekalink_cost' = cost
       /\ monthly_savings' = savings
       /\ divisors' = divisors \o percentage_divisors(savings, form.current_cost)
       /\ priced' = priced \cup {rateVars}
       /\ IF percent.k = "ZeroDivisionError"
          THEN /\ pc' = "crashed"
               /\ UNCHANGED <<percentage_savings, ui>>
          ELSE /\ percentage_savings' = percent
               /\ ui' = Append(ui, [kind |-> "results",
                                    text |-> IF FGeZero(savings)
                                             THEN "Monthly Savings"
                                             ELSE "Monthly Increase"])
               /\ pc' = "quote"
    /\ UNCHANGED <<env, loadVars, rateVars, form, errors, quoteVars, outbox>>

\* lines 516-533
BuildQuote ==
    /\ pc = "quote"
    /\ quote_data' =
         [set |-> TRUE,
          company_name |-> form.company_name,
          contact_name |-> form.contact_name,
          job_title |-> form.job_title,
          email |-> form.email,
          phone |-> form.phone,
          vms |-> form.vms,
          storage |-> form.storage,
          bandwidth |-> form.bandwidth,
          current_cost |-> form.current_cost,
          lekalink_cost |-> lekalink_cost,
          monthly_savings |-> monthly_savings,
          percentage_savings |-> percentage_savings,
          vm_rate |->
             quote_rates(VM_RATE, STORAGE_RATE_PER_TB,
                         BANDWIDTH_RATE_PER_MBPS)[1],
          storage_rate_per_tb |->
             quote_rates(VM_RATE, STORAGE_RATE_PER_TB,
                         BANDWIDTH_RATE_PER_MBPS)[2],
          bandwidth_rate_per_mbps |->
             quote_rates(VM_RATE, STORAGE_RATE_PER_TB,
                         BANDWIDTH_RATE_PER_MBPS)[3]]
    /\ pc' = "pdf"
    /\ UNCHANGED <<env, loadVars, rateVars, form, errors, calcVars, pdf_output,
                   email_result, ui, outbox, priced>>

\* lines 242-373: what the page of the PDF is drawn from
create_pdf(data) ==
    [set |-> TRUE,
     client |-> <<data.company_name, data.contact_name, data.job_title,
                  data.email, data.phone>>,
     current_cost |-> data.current_cost,
     items |-> <<FMul(FromInt(data.vms), data.vm_rate),
                 FMul(data.storage, data.storage_rate_per_tb),
                 FMul(data.bandwidth, data.bandwidth_rate_per_mbps)>>,
     total |-> data.lekalink_cost,
     heading |-> IF FGeZero(data.monthly_savings) THEN "Monthly Savings"
                 ELSE "Monthly Increase",
     savings |-> IF FGeZero(data.monthly_savings) THEN data.monthly_savings
                 ELSE FNeg(data.monthly_savings),
     percentage |-> data.percentage_savings]

\* lines 535-536
CreatePdf ==
    /\ pc = "pdf"
    /\ pdf_output' = create_pdf(quote_data)
    /\ pc' = "download"
    /\ UNCHANGED <<env, loadVars, rateVars, form, errors, calcVars, quote_data,
                   email_result, ui, outbox, priced>>

\* lines 538-544
DownloadButton ==
    /\ pc = "download"
    /\ ui' = Append(ui, [kind |-> "download", data |-> pdf_output])
    /\ pc' = "send_email"
    /\ UNCHANGED <<env, loadVars, rateVars, form, errors, calcVars, quoteVars,
                   outbox, priced>>

\* faulty variant of after_send: a failed send ends the run as an uncaught exception
after_send_raising(sent) == IF sent THEN "notify" ELSE "crashed"

\* lines 444-448: send_email_to_sales returns in both cases
after_send(sent) == "notify"

\* lines 546-547 with send_email_to_sales (375-448); the SMTP server accepts
\* the message or an exception is raised inside the try block
SendEmail ==
    /\ pc = "send_email"
    /\ \E sent \in BOOLEAN :
         /\ email_result' = IF sent THEN "True" ELSE "False"
         /\ outbox' = IF sent
                      THEN Append(outbox, [lead |-> quote_data,
                                           attachment |-> pdf_output])
                      ELSE outbox
         /\ ui' = IF sent THEN ui
                  ELSE Append(ui, Error("Failed to send email notification"))
         /\ pc' = after_send(sent)
    /\ UNCHANGED <<env, loadVars, rateVars, form, errors, calcVars, quote_data,
                   pdf_output, priced>>

\* lines 547-551
Notify ==
    /\ pc = "notify"
    /\ ui' = Append(ui, IF email_result = "True"
                        THEN [kind |-> "success", text |-> "Quote generated and sent"]
                        ELSE [kind |-> "info", text |-> "Quote generated successfully"])
    /\ pc' = "end"
    /\ UNCHANGED <<env, loadVars, rateVars, form, errors, calcVars, quoteVars,
                   outbox, priced>>

\* the next interaction: Streamlit runs the script again from its first line
Rerun ==
    /\ pc = "end"
    /\ pc' = "load"
    /\ load_error' = "none"
    /\ price_df' = <<>>
    /\ valid' = <<>>
    /\ vm_row' = <<>> /\ storage_row' = <<>> /\ bandwidth_row' = <<>>
    /\ storage_price' = Unbound
    /\ desc' = <<>>
    /\ VM_RATE' = DEFAULT_VM_RATE
    /\ STORAGE_RATE_PER_TB' = DEFAULT_STORAGE_RATE_PER_TB
    /\ BANDWIDTH_RATE_PER_MBPS' = DEFAULT_BANDWIDTH_RATE_PER_MBPS
    /\ form' = NoForm
    /\ errors' = <<>>
    /\ lekalink_cost' = Unbound
    /\ monthly_savings' = Unbound
    /\ percentage_savings' = NoRatio("unbound")
    /\ divisors' = <<>>
    /\ quote_data' = NoQuote
    /\ pdf_output' = NoPdf
    /\ ui' = <<>>
    /\ email_result' = "unset"
    /\ outbox' = <<>>
    /\ UNCHANGED <<env, priced>>

\* ------------------------------------------------------ the whole script
QuoteRows ==
    { Row(Text(<<"v", "d", "c">>), Num(90000)),
      Row(Text(<<"v", "S", "t", "o", "r", "a", "g", "e", " ", "(", "p", "e",
                 "r", " ", "G", "B", ")">>), Num(250)) }

QuoteEnvs ==
    BrokenEnvs \cup
    { Deployment(TRUE, TRUE, TRUE, rows, fail) :
        rows \in SeqsUpTo(QuoteRows, MaxQuoteRows),
        fail \in {"none", "print_vm"} }

Init ==
    /\ env \in QuoteEnvs
    /\ priced = {}
    /\ ScriptStart

Next ==
    \/ Load
    \/ SelectVm
    \/ SelectStorage
    \/ StorageConvert
    \/ StorageCoerce
    \/ SelectBandwidth
    \/ FinalSafety
    \/ Except
    \/ ReadWidgets
    \/ Validate
    \/ Calculate
    \/ BuildQuote
    \/ CreatePdf
    \/ DownloadButton
    \/ SendEmail
    \/ Notify
    \/ Rerun

Spec == Init /\ [][Next]_vars

\* ===================================================== rate resolution claims
\* a raw unit cell that is present and numeric
Numeric(cell) == cell.k \in {"num", "inf", "ninf"}

\* a numeric cell that is finite and not negative
Acceptable(cell) == cell.k = "num" /\ cell.v >= 0

\* description cells holding, in any letter case, one of the keywords
CellsWith(keywords) ==
    { cell \in Descriptions :
        /\ ~cell.na
        /\ \E j \in 1..Len(keywords) : In(upper(keywords[j]), upper(cell.s)) }

VmCells == CellsWith(vm_keywords)
StorageCells == CellsWith(storage_keywords)
BandwidthCells == CellsWith(bandwidth_keywords)

\* description cells that spell "gb" in any letter case
GbCells ==
    { cell \in Descriptions :
        /\ ~cell.na
        /\ \E p \in 1..(Len(cell.s) - 1) :
              cell.s[p] \in {"G", "g"} /\ cell.s[p + 1] \in {"B", "b"} }

\* rows of the sheet that are valid and match a category, by position
Candidates(cells) ==
    { i \in 1..Len(env.rows) :
        env.rows[i].desc \in cells /\ Numeric(env.rows[i].unit) }

Least(S) == CHOOSE i \in S : \A j \in S : i <= j

\* the loader ran to its last line
Resolved == pc = "layout" /\ load_error = "none"

\* C1: the three rates are finite and not negative in every state: at start,
\* between any two steps of the loader (also right after the GB-to-TB
\* multiplication, before the second coercion) and after an except clause.
C1_RatesFiniteNonNegative ==
    \A r \in {VM_RATE, STORAGE_RATE_PER_TB, BANDWIDTH_RATE_PER_MBPS} :
        r.k = "num" /\ r.v >= 0

\* C1 witness: the loader aborted after the multiplied storage rate was
\* stored, on a sheet that also holds an infinite and a text unit value.
C1_Witness ==
    /\ load_error = "except_exc"
    /\ STORAGE_RATE_PER_TB = Num(256000)
    /\ \E i \in 1..Len(env.rows) : env.rows[i].unit \in {PInf, NotANumber}

\* what a category takes from row i of the sheet before any unit correction
Taken(i, default) ==
    IF Acceptable(env.rows[i].unit) THEN env.rows[i].unit ELSE default

\* C2: whenever a category has selected a row, that row is the earliest row of
\* the sheet that is valid and holds one of the category's keywords, and the
\* value the category reads is that row's; a completed run selected a row for
\* every category that has such a row.
C2_FirstValidMatchWins ==
    /\ vm_row # <<>> =>
          /\ Candidates(VmCells) # {}
          /\ iloc0(vm_row) = Least(Candidates(VmCells))
          /\ VM_RATE = Taken(Least(Candidates(VmCells)), DEFAULT_VM_RATE)
    /\ storage_row # <<>> =>
          /\ Candidates(StorageCells) # {}
          /\ iloc0(storage_row) = Least(Candidates(StorageCells))
          /\ storage_price = Taken(Least(Candidates(StorageCells)),
                                   DEFAULT_STORAGE_RATE_PER_TB)
          /\ Text(desc) = env.rows[Least(Candidates(StorageCells))].desc
    /\ bandwidth_row # <<>> =>
          /\ Candidates(BandwidthCells) # {}
          /\ iloc0(bandwidth_row) = Least(Candidates(BandwidthCells))
          /\ BANDWIDTH_RATE_PER_MBPS =
                Taken(Least(Candidates(BandwidthCells)),
                      DEFAULT_BANDWIDTH_RATE_PER_MBPS)
    /\ Resolved =>
          /\ vm_row = <<>> <=> Candidates(VmCells) = {}
          /\ storage_row = <<>> <=> Candidates(StorageCells) = {}
          /\ bandwidth_row = <<>> <=> Candidates(BandwidthCells) = {}

\* C2 witness: two valid VM rows with different values, the first one used.
C2_Witness ==
    /\ Resolved
    /\ Len(vm_row) = 2
    /\ env.rows[vm_row[1]].unit = Num(250)
    /\ env.rows[vm_row[2]].unit = Num(90000)
    /\ VM_RATE = Num(250)

\* the categories, with their cells, rate and default
Categories == {"vm", "storage", "bandwidth"}

CellsOf(c) ==
    CASE c = "vm" -> VmCells
      [] c = "storage" -> StorageCells
      [] OTHER -> BandwidthCells

DefaultOf(c) ==
    CASE c = "vm" -> DEFAULT_VM_RATE
      [] c = "storage" -> DEFAULT_STORAGE_RATE_PER_TB
      [] OTHER -> DEFAULT_BANDWIDTH_RATE_PER_MBPS

RateOf(c) ==
    CASE c = "vm" -> VM_RATE
      [] c = "storage" -> STORAGE_RATE_PER_TB
      [] OTHER -> BANDWIDTH_RATE_PER_MBPS

\* the category has no row to take a rate from: no valid row holds a keyword
\* of it, or the first such row holds a negative or infinite value
FallsBack(c) ==
    \/ Candidates(CellsOf(c)) = {}
    \/ ~Acceptable(env.rows[Least(Candidates(CellsOf(c)))].unit)

\* the rate a category takes from its own first valid matching row
OwnRate(c) ==
    LET i == Least(Candidates(CellsOf(c)))
        u == env.rows[i].unit
    IN  IF c = "storage" /\ env.rows[i].desc \in GbCells /\ u.v < 5000
        THEN Num(u.v * 1024)
        ELSE u

\* C3: in a completed run a category with no usable row has its own default,
\* whatever the other categories found, and then each other category still
\* has the rate of its own row (or its own default when it has none); an
\* empty sheet gives the three defaults.
C3_FallbackPerCategory ==
    Resolved =>
        /\ \A c \in Categories :
              FallsBack(c) =>
                 /\ RateOf(c) = DefaultOf(c)
                 /\ \A d \in Categories \ {c} :
                       RateOf(d) = IF FallsBack(d) THEN DefaultOf(d)
                                   ELSE OwnRate(d)
        /\ env.rows = <<>> =>
              \A c \in Categories : RateOf(c) = DefaultOf(c)

\* C3 witness: the only VM row holds a negative value, no valid row names
\* bandwidth; VM and bandwidth are the defaults, storage is read from its row.
C3_Witness ==
    /\ Resolved
    /\ Len(env.rows) = 2
    /\ env.rows[1].desc \in VmCells \ (StorageCells \cup BandwidthCells)
    /\ env.rows[1].unit = Num(-100)
    /\ env.rows[2].desc \in StorageCells \ (VmCells \cup BandwidthCells)
    /\ VM_RATE = DEFAULT_VM_RATE
    /\ BANDWIDTH_RATE_PER_MBPS = DEFAULT_BANDWIDTH_RATE_PER_MBPS
    /\ STORAGE_RATE_PER_TB = Num(90000)

\* C4: once the storage rate is stored from a selected row, it is the coerced
\* value times 1024 when the row's description spells "gb" in any case and the
\* coerced value is below 50, and the coerced value otherwise; the VM and the
\* bandwidth rate are the coerced value of their row, never multiplied.
C4_StorageUnitCorrection ==
    /\ (storage_row # <<>> /\ pc # "storage_convert") =>
          LET i == iloc0(storage_row)
              v == Taken(i, DEFAULT_STORAGE_RATE_PER_TB)
          IN  STORAGE_RATE_PER_TB =
                 IF env.rows[i].desc \in GbCells /\ v.v < 5000
                 THEN Num(v.v * 1024)
                 ELSE v
    /\ vm_row # <<>> =>
          VM_RATE = Taken(iloc0(vm_row), DEFAULT_VM_RATE)
    /\ bandwidth_row # <<>> =>
          BANDWIDTH_RATE_PER_MBPS =
             Taken(iloc0(bandwidth_row), DEFAULT_BANDWIDTH_RATE_PER_MBPS)

\* C4 witness: "vStorage (per GB)" at 2.5 resolved to 2560 next to a
\* bandwidth row that spells "gb", holds 2.5 and stays 2.5.
C4_Witness ==
    /\ Resolved
    /\ storage_row # <<>>
    /\ env.rows[iloc0(storage_row)] =
          Row(Text(<<"v", "S", "t", "o", "r", "a", "g", "e", " ", "(", "p",
                     "e", "r", " ", "G", "B", ")">>), Num(250))
    /\ STORAGE_RATE_PER_TB = Num(256000)
    /\ bandwidth_row # <<>>
    /\ env.rows[iloc0(bandwidth_row)].desc \in GbCells
    /\ BANDWIDTH_RATE_PER_MBPS = Num(250)

\* ============================================================ quote claims
\* the calculation of this run has been done
Calculated == lekalink_cost.k # "unbound"

\* the usage of the worked example: 10 VMs, 2 TB, 100 Mbps, 5000 a month
ExampleUsage ==
    /\ form.vms = 10
    /\ form.storage = Num(200)
    /\ form.bandwidth = Num(10000)
    /\ form.current_cost = Num(500000)

DefaultRates ==
    /\ VM_RATE = DEFAULT_VM_RATE
    /\ STORAGE_RATE_PER_TB = DEFAULT_STORAGE_RATE_PER_TB
    /\ BANDWIDTH_RATE_PER_MBPS = DEFAULT_BANDWIDTH_RATE_PER_MBPS

\* the estimate is the weighted sum and the savings the difference, exactly
\* (both sides in ten-thousandths, nothing rounded), whatever their sign
WeightedSum ==
    /\ lekalink_cost.k = "num"
    /\ monthly_savings.k = "num"
    /\ lekalink_cost.v * 100 =
          form.vms * 100 * VM_RATE.v
          + form.storage.v * STORAGE_RATE_PER_TB.v
          + form.bandwidth.v * BANDWIDTH_RATE_PER_MBPS.v
    /\ monthly_savings.v = form.current_cost.v - lekalink_cost.v

\* C5 as stated: the weighted sum, and 10133.30 / -5133.30 on the example.
C5_Original ==
    Calculated =>
       /\ WeightedSum
       /\ (ExampleUsage /\ DefaultRates) =>
             /\ lekalink_cost = Num(1013330)
             /\ monthly_savings = Num(-513330)

\* C5 amended: the weighted sum and the difference hold exactly for every
\* usage and rate table; on the example they give 11134.30 and -6134.30.
C5_Estimate ==
    Calculated =>
       /\ WeightedSum
       /\ (ExampleUsage /\ DefaultRates) =>
             /\ lekalink_cost = Num(1113430)
             /\ monthly_savings = Num(-613430)

\* C5 witness: the example has been calculated at the default rates.
C5_Witness ==
    /\ Calculated
    /\ ExampleUsage
    /\ DefaultRates
    /\ lekalink_cost = Num(1113430)
    /\ monthly_savings = Num(-613430)

\* the percentage of this run has been stored
HasPercentage == percentage_savings.k # "unbound"

\* percentage_savings is the fraction (monthly_savings * 100) / current_cost
IsPercentOfCost ==
    LET c == form.current_cost.v \div percentage_savings.d IN
    /\ percentage_savings.k = "num"
    /\ form.current_cost.v = c * percentage_savings.d
    /\ monthly_savings.v * 100 = c * percentage_savings.n

\* C6: when the current cost is 0 the percentage is 0 and no division was
\* evaluated, whatever the estimate; when it is above 0 the percentage is
\* (monthly_savings / current_cost) * 100; no run divides by zero.
C6_PercentageGuard ==
    /\ pc # "crashed"
    /\ \A i \in 1..Len(divisors) : divisors[i] # Num(0)
    /\ HasPercentage =>
          /\ form.current_cost.v = 0 =>
                /\ percentage_savings = NoRatio("num")
                /\ divisors = <<>>
          /\ form.current_cost.v > 0 =>
                /\ IsPercentOfCost
                /\ divisors = <<form.current_cost>>

\* C6 witness: current cost 0 with an estimate above 0, percentage 0.
C6_Witness ==
    /\ HasPercentage
    /\ form.current_cost = Num(0)
    /\ lekalink_cost.v > 0
    /\ percentage_savings.n = 0
    /\ divisors = <<>>

\* C7 as stated: the two signs always match.
C7_Original ==
    HasPercentage => Sgn(monthly_savings.v) = Sgn(percentage_savings.n)

\* C7 amended: the two signs match whenever the current cost is above 0; when
\* it is 0 the percentage is 0 while monthly_savings is minus the estimate,
\* so the signs match only if the estimate is 0 too.
C7_SignsMatch ==
    HasPercentage =>
       /\ form.current_cost.v > 0 =>
             Sgn(monthly_savings.v) = Sgn(percentage_savings.n)
       /\ form.current_cost.v = 0 =>
             /\ percentage_savings.n = 0
             /\ monthly_savings.v = 0 - lekalink_cost.v
             /\ monthly_savings.v <= 0

\* C7 witness: a cost increase with both values negative, and a saving with
\* both positive, are reached; this is the increase.
C7_Witness ==
    /\ HasPercentage
    /\ form.current_cost.v > 0
    /\ monthly_savings.v < 0
    /\ percentage_savings.n < 0

\* the five contact fields are filled in and the email holds an "@"
ContactComplete ==
    /\ form.company_name # <<>>
    /\ form.contact_name # <<>>
    /\ form.job_title # <<>>
    /\ form.phone # <<>>
    /\ \E i \in 1..Len(form.email) : form.email[i] = "@"

EmailAttempted == email_result # "unset"

\* C8: calculation, PDF and email happen only for a complete contact; a run
\* whose button was clicked ends with all three done when the contact is
\* complete and with none of them, an error list and nothing but errors on
\* the page when it is not.
C8_ValidationFailClosed ==
    /\ Calculated => ContactComplete
    /\ pdf_output.set => ContactComplete
    /\ EmailAttempted => ContactComplete
    /\ (pc = "end" /\ form.clicked) =>
          /\ ContactComplete <=> errors = <<>>
          /\ ContactComplete <=> Calculated
          /\ ContactComplete <=> pdf_output.set
          /\ ContactComplete <=> EmailAttempted
          /\ ~ContactComplete =>
                /\ ~quote_data.set
                /\ outbox = <<>>
                /\ \A i \in 1..Len(ui) : ui[i].kind = "error"

\* C8 witness: every field filled in, the email without "@": the run ended
\* with one error and no calculation, PDF or email.
C8_Witness ==
    /\ pc = "end"
    /\ form.clicked
    /\ form.email = <<"a">>
    /\ errors = <<"Please enter a valid email address.">>
    /\ ~Calculated
    /\ ~pdf_output.set
    /\ ~EmailAttempted

\* the page offers the PDF of this run for download
DownloadOffered ==
    \E i \in 1..Len(ui) : ui[i] = [kind |-> "download", data |-> pdf_output]

\* the quote record holds the values calculated from the form
QuoteFromForm ==
    /\ quote_data.set
    /\ quote_data.lekalink_cost = lekalink_cost
    /\ quote_data.monthly_savings = monthly_savings
    /\ quote_data.percentage_savings = percentage_savings
    /\ quote_data.current_cost = form.current_cost
    /\ WeightedSum

\* C9: the send is attempted only after the quote is calculated, the PDF
\* rendered and offered; a failed send returns False to the handler, which
\* goes on to its notice, nothing is sent later in the run; and after the
\* send, failed or not, the quote and the offered PDF are the ones made from
\* the form before the send.
C9_EmailFailureNonFatal ==
    /\ pc \in {"send_email", "notify"} \/ EmailAttempted =>
          /\ QuoteFromForm
          /\ pdf_output.set
          /\ pdf_output.total = lekalink_cost
          /\ pdf_output.percentage = percentage_savings
          /\ DownloadOffered
    /\ EmailAttempted => pc \in {"notify", "end"}
    /\ email_result = "False" => outbox = <<>>
    /\ email_result = "True" =>
          outbox = <<[lead |-> quote_data, attachment |-> pdf_output]>>
    /\ (pc = "end" /\ EmailAttempted) =>
          ui[Len(ui)].kind = IF email_result = "True" THEN "success"
                             ELSE "info"

\* C9 witness: the send failed, the run ended with the info notice and the
\* PDF on offer.
C9_Witness ==
    /\ pc = "end"
    /\ email_result = "False"
    /\ DownloadOffered
    /\ pdf_output.total = Num(1113430)
    /\ ui[Len(ui)].kind = "info"

\* positions of the submission handler (lines 496-551)
HandlerPcs == {"button", "calc", "quote", "pdf", "download", "send_email",
               "notify"}

\* the rates the quote record carries are the current rates and the ones
\* its estimate was computed with
QuoteRatesUsed ==
    quote_data.set =>
       /\ quote_data.vm_rate = VM_RATE
       /\ quote_data.storage_rate_per_tb = STORAGE_RATE_PER_TB
       /\ quote_data.bandwidth_rate_per_mbps = BANDWIDTH_RATE_PER_MBPS
       /\ quote_data.lekalink_cost.v * 100 =
             quote_data.vms * 100 * quote_data.vm_rate.v
             + quote_data.storage.v * quote_data.storage_rate_per_tb.v
             + quote_data.bandwidth.v * quote_data.bandwidth_rate_per_mbps.v

RowsOf(c) ==
    CASE c = "vm" -> vm_row
      [] c = "storage" -> storage_row
      [] OTHER -> bandwidth_row

\* row i of the sheet holds a keyword of category c
Matches(i, c) == env.rows[i].desc \in CellsOf(c)

\* no row of category c before row i has a numeric unit value
NoneBefore(i, c) ==
    \A j \in 1..(i - 1) : Matches(j, c) => ~Numeric(env.rows[j].unit)

\* the rows of category c after row i that have a numeric unit value
NumericAfter(i, c) ==
    { j \in (i + 1)..Len(env.rows) :
        Matches(j, c) /\ Numeric(env.rows[j].unit) }

\* C11: in a completed run, for every category and every row holding one of
\* its keywords: (a) a row whose unit value is empty or text is not in the
\* category's frame, and when no numeric row of the category precedes it the
\* category selects the next row of the category with a numeric value (the
\* default when there is none); (b) a row whose unit value is numeric but
\* negative or infinite, with no numeric row of the category before it, is
\* the selected row and the category's rate is its default, whatever the
\* later rows of the category hold.
C11_ValidityVersusAcceptability ==
    Resolved =>
        \A c \in Categories : \A i \in 1..Len(env.rows) :
            Matches(i, c) =>
               /\ ~Numeric(env.rows[i].unit) =>
                     /\ \A n \in 1..Len(RowsOf(c)) : RowsOf(c)[n] # i
                     /\ NoneBefore(i, c) =>
                           IF NumericAfter(i, c) = {}
                           THEN /\ RowsOf(c) = <<>>
                                /\ RateOf(c) = DefaultOf(c)
                           ELSE /\ RowsOf(c) # <<>>
                                /\ iloc0(RowsOf(c)) = Least(NumericAfter(i, c))
               /\ ( /\ Numeric(env.rows[i].unit)
                    /\ ~Acceptable(env.rows[i].unit)
                    /\ NoneBefore(i, c) ) =>
                     /\ RowsOf(c) # <<>>
                     /\ iloc0(RowsOf(c)) = i
                     /\ RateOf(c) = DefaultOf(c)

\* C11 witness: three VM rows holding text, a negative number and 2.5: the
\* text row is left out, the negative row is selected, the rate is the
\* default although the third row holds a usable rate.
C11_Witness ==
    /\ Resolved
    /\ env.rows = << Row(Text(<<"v", "d", "c">>), NotANumber),
                     Row(Text(<<"v", "d", "c">>), Num(-100)),
                     Row(Text(<<"v", "d", "c">>), Num(250)) >>
    /\ vm_row = <<2, 3>>
    /\ VM_RATE = DEFAULT_VM_RATE

\* the rate row i supplies to category c: its unit value when that is finite
\* and not negative (for storage after the GB-to-TB correction), the
\* category's default otherwise
Supplied(i, c) ==
    LET u == env.rows[i].unit
    IN  IF ~Acceptable(u) THEN DefaultOf(c)
        ELSE IF c = "storage" /\ env.rows[i].desc \in GbCells /\ u.v < 5000
        THEN Num(u.v * 1024)
        ELSE u

\* the categories row i is the first valid match of
FirstMatchOf(i) ==
    { c \in Categories :
        /\ Candidates(CellsOf(c)) # {}
        /\ Least(Candidates(CellsOf(c))) = i }

\* C12: the description "NVMe" holds the VM keyword "VM" and the storage
\* keyword "NVME"; in a completed run the frame of every category is exactly
\* the rows that hold one of its own keywords and a numeric unit value, in
\* sheet order, whatever the other categories selected; and every row
\* supplies the rate of each category it is the first valid match of.
C12_SelectionIndependent ==
    /\ Text(<<"N", "V", "M", "e">>) \in VmCells \cap StorageCells
    /\ Resolved =>
          /\ \A c \in Categories :
                /\ { RowsOf(c)[n] : n \in 1..Len(RowsOf(c)) } =
                      Candidates(CellsOf(c))
                /\ \A n \in 1..(Len(RowsOf(c)) - 1) :
                      RowsOf(c)[n] < RowsOf(c)[n + 1]
          /\ \A i \in 1..Len(env.rows) : \A c \in FirstMatchOf(i) :
                /\ RowsOf(c) # <<>>
                /\ iloc0(RowsOf(c)) = i
                /\ RateOf(c) = Supplied(i, c)

\* C12 witness: an "NVMe" row at 900 before a storage-only row at 2.5: the
\* NVMe row is the selected row of VM and of storage and both rates are 900.
C12_Witness ==
    /\ Resolved
    /\ env.rows =
          << Row(Text(<<"N", "V", "M", "e">>), Num(90000)),
             Row(Text(<<"v", "S", "t", "o", "r", "a", "g", "e", " ", "(", "p",
                        "e", "r", " ", "G", "B", ")">>), Num(250)) >>
    /\ FirstMatchOf(1) = {"vm", "storage"}
    /\ vm_row = <<1>>
    /\ storage_row = <<1, 2>>
    /\ VM_RATE = Num(90000)
    /\ STORAGE_RATE_PER_TB = Num(90000)

====
